---------------------------- MODULE Spec2Model ----------------------------
(***************************************************************************)
(* Model of data_taking_scripts/motor.py (Motor, OrpheusMotors) and of     *)
(* DataLogger.flmn in data_taking_scripts/data_logging.py.                 *)
(*                                                                         *)
(* Lengths are Python floats in the source.  They are modelled as exact    *)
(* rationals <<numerator, denominator>> in lowest terms with a positive    *)
(* denominator; round() is Python 3's round-half-to-even.                  *)
(***************************************************************************)
EXTENDS Integers, Sequences, FiniteSets, TLC

(***************************************************************************)
(* Bounds of the model.                                                    *)
(***************************************************************************)
\* longest list_of_motors handed to OrpheusMotors.__init__
MaxList == 3
\* largest num_plates the caller uses
MaxPlates == 2
\* number of move_by_increment calls that complete in one run
MaxCalls == 2
\* largest mode index l, m, n handed to flmn
MaxMode == 1

(***************************************************************************)
(* Exact rational arithmetic standing for float arithmetic.                *)
(***************************************************************************)
Abs(a) == IF a < 0 THEN -a ELSE a

RECURSIVE Gcd(_, _)
Gcd(a, b) == IF b = 0 THEN a ELSE Gcd(b, a % b)

Lcm(a, b) == (a \div Gcd(a, b)) * b

\* n/d in lowest terms, d > 0
Norm(n, d) ==
    LET g == Gcd(Abs(n), Abs(d))
        s == IF d < 0 THEN -1 ELSE 1
    IN  << s * (n \div g), s * (d \div g) >>

RInt(k) == << k, 1 >>

RAdd(x, y) ==
    LET l == Lcm(x[2], y[2])
    IN  Norm(x[1] * (l \div x[2]) + y[1] * (l \div y[2]), l)

RNeg(x) == << -x[1], x[2] >>

RSub(x, y) == RAdd(x, RNeg(y))

\* cross-reduced before multiplying, so that no intermediate grows
RMul(x, y) ==
    LET g1 == Gcd(Abs(x[1]), y[2])
        g2 == Gcd(Abs(y[1]), x[2])
    IN  Norm((x[1] \div g1) * (y[1] \div g2), (x[2] \div g2) * (y[2] \div g1))

\* y # 0
RDiv(x, y) == RMul(x, Norm(y[2], y[1]))

RLe(x, y) == RSub(x, y)[1] <= 0

RLt(x, y) == RSub(x, y)[1] < 0

RAbs(x) == << Abs(x[1]), x[2] >>

\* Python 3 round() on a float: to the nearest integer, ties to the even one
Round(x) ==
    LET f == x[1] \div x[2]
        r == x[1] - f * x[2]
    IN  IF 2 * r < x[2] THEN f
        ELSE IF 2 * r > x[2] THEN f + 1
        ELSE IF f % 2 = 0 THEN f ELSE f + 1

\* int() of a float: truncation towards zero
Trunc(x) == IF x[1] >= 0 THEN x[1] \div x[2] ELSE -((-x[1]) \div x[2])

(***************************************************************************)
(* Sequence helpers.                                                       *)
(***************************************************************************)
\* set(list)
SetOf(s) == { s[i] : i \in DOMAIN s }

\* x in list
InList(x, s) == \E i \in DOMAIN s : s[i] = x

\* list.index(x): the first position of x
Index(s, x) == CHOOSE i \in DOMAIN s : s[i] = x /\ \A j \in 1..(i - 1) : s[j] # x

\* every enumeration of S without repetition
Perms(S) ==
    { f \in [1..Cardinality(S) -> S] : \A x \in S : \E i \in DOMAIN f : f[i] = x }

SeqsUpTo(S, n) == UNION { [1..k -> S] : k \in 0..n }

(***************************************************************************)
(* Motor and its subclasses.                                               *)
(***************************************************************************)
Roles == { "curved_mirror", "bottom_dielectric_plate", "top_dielectric_plate" }

\* the ready sentinel and the other status a drive reports
Status == { "R", "M" }

\* Motor.__init__: the object keeps its name
Motor(cls, name) == [ cls |-> cls, name |-> name ]

CurvedMirrorMotor == Motor("CurvedMirrorMotor", "curved_mirror")

BottomDielectricPlateMotor == Motor("BottomDielectricPlateMotor", "bottom_dielectric_plate")

TopDielectricPlateMotor == Motor("TopDielectricPlateMotor", "top_dielectric_plate")

TestMotor == Motor("TestMotor", "resonator_coupling")

get_name(m) == m.name

\* Motor.move_to_zero: set("<name>_move_to_position", 0)
move_to_zero(m) == [ endpoint |-> << m.name, "move_to_position" >>, value |-> 0 ]

\* Motor.move_steps: set("<name>_move_steps", steps)
move_steps(m, steps) == [ endpoint |-> << m.name, "move_steps" >>, value |-> steps ]

\* Motor.stop_and_kill: set("<name>_status_command", 'stop_and_kill')
stop_and_kill(m) == [ endpoint |-> << m.name, "status_command" >>, value |-> "stop_and_kill" ]

(***************************************************************************)
(* OrpheusMotors.__init__                                                  *)
(***************************************************************************)
\* a faulty variant of MotorFor: the else branch builds the TestMotor
MotorForWithTestMotor(motor) ==
    IF motor = "curved_mirror" THEN << CurvedMirrorMotor >>
    ELSE IF motor = "bottom_dielectric_plate" THEN << BottomDielectricPlateMotor >>
    ELSE IF motor = "top_dielectric_plate" THEN << TopDielectricPlateMotor >>
    ELSE << TestMotor >>

\* the if/elif chain of the constructor's loop: what one string appends
MotorFor(motor) ==
    IF motor = "curved_mirror" THEN << CurvedMirrorMotor >>
    ELSE IF motor = "bottom_dielectric_plate" THEN << BottomDielectricPlateMotor >>
    ELSE IF motor = "top_dielectric_plate" THEN << TopDielectricPlateMotor >>
    ELSE << >>

\* a faulty variant of IterationOrders: the loop runs over the argument, not over the set
IterationOrdersOfArgument(list_arg) == { list_arg }

\* the orders in which `for motor in self.list_of_motors` may visit the set
IterationOrders(list_arg) == Perms(SetOf(list_arg))

\* self.motors after the loop has visited `order`
RECURSIVE BuildMotors(_)
BuildMotors(order) ==
    IF order = << >> THEN << >>
    ELSE BuildMotors(SubSeq(order, 1, Len(order) - 1)) \o MotorFor(order[Len(order)])

\* self.motor_names = [motor.get_name() for motor in self.motors]
NamesOf(ms) == [ i \in DOMAIN ms |-> get_name(ms[i]) ]

(***************************************************************************)
(* The distance-to-steps conversions.                                      *)
(***************************************************************************)
holder_thickness == << 1, 4 >>

lip_thickness == << 1, 20 >>

pitch == << 1, 20 >>

steps_per_rotation == 20000

cm_pitch == << 1, 20 >>

cm_steps_per_rotation == 20000

\* a faulty variant of plate_separation: one plate too many in the divisor
plate_separation_off_by_one(length, num_plates) == RDiv(length, RInt(num_plates + 2))

\* OrpheusMotors.plate_separation; num_plates # -1
plate_separation(length, num_plates) == RDiv(length, RInt(num_plates + 1))

\* a faulty variant of plates_distance_to_steps: int(steps) without round()
plates_distance_to_steps_truncating(distance, plate_thickness) ==
    LET holder_center == RDiv(holder_thickness, RInt(2))
        plate_center == RAdd(lip_thickness, RDiv(plate_thickness, RInt(2)))
        gap == RSub(plate_center, holder_center)
        actual_distance == RAdd(distance, gap)
        num_pitch_lengths == RDiv(actual_distance, pitch)
        steps == RMul(RInt(steps_per_rotation), num_pitch_lengths)
    IN  Trunc(steps)

\* OrpheusMotors.plates_distance_to_steps with its default arguments
plates_distance_to_steps(distance, plate_thickness) ==
    LET holder_center == RDiv(holder_thickness, RInt(2))
        plate_center == RAdd(lip_thickness, RDiv(plate_thickness, RInt(2)))
        gap == RSub(plate_center, holder_center)
        actual_distance == RAdd(distance, gap)
        num_pitch_lengths == RDiv(actual_distance, pitch)
        steps == RMul(RInt(steps_per_rotation), num_pitch_lengths)
    IN  Round(steps)

\* OrpheusMotors.curved_mirror_distance_to_steps with its default arguments
curved_mirror_distance_to_steps(distance) ==
    LET num_pitch_lengths == RDiv(distance, cm_pitch)
        steps == RMul(RInt(cm_steps_per_rotation), num_pitch_lengths)
    IN  Round(steps)


(***************************************************************************)
(* OrpheusMotors.move_by_increment                                         *)
(***************************************************************************)
\* a faulty variant of IssueOrder: the top plate block comes first
IssueOrderTopFirst ==
    << "top_dielectric_plate", "curved_mirror", "bottom_dielectric_plate" >>

\* the order of the three `if '<role>' in self.motor_names` blocks
IssueOrder ==
    << "curved_mirror", "bottom_dielectric_plate", "top_dielectric_plate" >>

\* the step count one block computes for its role
StepsFor(role, increment_distance, dielectric_plate_thickness, new_plate_separation, initial_plate_separation) ==
    IF role = "curved_mirror"
    THEN curved_mirror_distance_to_steps(increment_distance)
    ELSE IF role = "bottom_dielectric_plate"
    THEN LET diff == RAdd(initial_plate_separation, increment_distance)
             move_bottom_plate == RSub(diff, new_plate_separation)
         IN  plates_distance_to_steps(move_bottom_plate, dielectric_plate_thickness)
    ELSE LET move_top_plate == RSub(new_plate_separation, initial_plate_separation)
         IN  plates_distance_to_steps(move_top_plate, dielectric_plate_thickness)

\* the body of move_by_increment for num_plates # -1: the remote calls it makes,
\* in order, and the pair it returns
move_by_increment(ms, names, increment_distance, dielectric_plate_thickness, cavity_length_tracker, num_plates, initial_plate_separation) ==
    LET tracker == RAdd(cavity_length_tracker, increment_distance)
        new_plate_separation == plate_separation(tracker, num_plates)
        Block(role) ==
            IF InList(role, names)
            THEN << move_steps(ms[Index(names, role)],
                               StepsFor(role, increment_distance,
                                        dielectric_plate_thickness,
                                        new_plate_separation,
                                        initial_plate_separation)) >>
            ELSE << >>
    IN  [ calls |-> Block(IssueOrder[1]) \o Block(IssueOrder[2]) \o Block(IssueOrder[3]),
          ret   |-> << tracker, new_plate_separation >> ]

\* a faulty variant of Acknowledged: the failure is swallowed and the later calls are made
AcknowledgedDespiteFailure(calls, k) ==
    IF k = 0 THEN calls
    ELSE SubSeq(calls, 1, k - 1) \o SubSeq(calls, k + 1, Len(calls))

\* the remote calls that went through when the k-th one raises (k = 0: none
\* raises).  Nothing catches the exception, so the calls after it are not made.
Acknowledged(calls, k) == IF k = 0 THEN calls ELSE SubSeq(calls, 1, k - 1)

(***************************************************************************)
(* The polling loops.                                                      *)
(***************************************************************************)
\* a faulty variant of ready_list: one entry too many
ready_list_too_long(names) == [ i \in 1..(Len(names) + 1) |-> "R" ]

\* ready = len(self.motor_names)*['R']
ready_list(names) == [ i \in 1..Len(names) |-> "R" ]

\* a faulty variant of LoopContinues: only the first motor's status is compared
LoopContinuesOnFirstOnly(st, ready) ==
    st # << >> /\ ready # << >> /\ st[1] # ready[1]

\* while (self.get_motor_status() != ready)
LoopContinues(st, ready) == st # ready

(***************************************************************************)
(* State.                                                                  *)
(***************************************************************************)
VARIABLES
    pc,               \* where the caller's thread is
    arg_list,         \* list_of_motors as handed to __init__ (gone once it returns)
    ctor_arg_len,     \* history: the length of that argument
    list_of_motors,   \* self.list_of_motors
    motors,           \* self.motors
    motor_names,      \* self.motor_names
    device,           \* the status each drive reports when asked
    status,           \* the list get_motor_status builds / the status wait_for_motor read
    target,           \* index in motors of the Motor a wait_for_motor call is on
    op,               \* the operation called last
    outcome,          \* "running", "returned" or "raised"
    sent,             \* the set() calls of that operation that went through
    failed,           \* the remote call that raised, if any
    queried,          \* whether that operation asked any drive for its status
    ret,              \* what that operation returned
    args,             \* the arguments of the last move_by_increment call
    geom,             \* the caller's geometry, threaded from call to call
    hist,             \* history of the run, for the claims
    flmn_in,          \* the arguments of a DataLogger.flmn call
    flmn_out          \* its outcome

ctor_vars == << arg_list, ctor_arg_len, list_of_motors, motors, motor_names >>

call_vars == << op, outcome, sent, failed, queried, ret >>

flmn_vars == << flmn_in, flmn_out >>

vars == << pc, arg_list, ctor_arg_len, list_of_motors, motors, motor_names, device,
           status, target, op, outcome, sent, failed, queried, ret, args, geom, hist,
           flmn_in, flmn_out >>

None == << >>

\* what an operation returned: nothing, the pair of move_by_increment, or the list
\* of get_motor_status
NoReturn == [ kind |-> "none" ]

ReturnPair(p) == [ kind |-> "pair", pair |-> p ]

ReturnList(l) == [ kind |-> "list", list |-> l ]

\* the strings a caller may put in list_of_motors
RoleStrings == Roles \cup { "resonator_coupling" }

\* increment_distance values: forward, backward, and half a curved-mirror step
Increments == { << 1, 1 >>, << -1, 2 >>, << 1, 800000 >> }

\* dielectric_plate_thickness values: gap = -1/40 and gap = 0
Thicknesses == { << 1, 10 >>, << 3, 20 >> }

\* the cavity length the caller starts from
InitialLength == << 10, 1 >>

\* the caller's first initial_plate_separation: the even spacing, or 3.5
InitialSeparations(num_plates) ==
    { << 7, 2 >> } \cup
    (IF num_plates = -1 THEN { } ELSE { plate_separation(InitialLength, num_plates) })

NoFlmn == [ kind |-> "none" ]

InitMotors ==
    /\ pc = "new"
    /\ arg_list \in SeqsUpTo(RoleStrings, MaxList)
    /\ ctor_arg_len = 0
    /\ list_of_motors = { }
    /\ motors = << >>
    /\ motor_names = << >>
    /\ device = [ r \in Roles |-> "R" ]
    /\ status = << >>
    /\ target = 0
    /\ op = "none"
    /\ outcome = "returned"
    /\ sent = << >>
    /\ failed = << >>
    /\ queried = FALSE
    /\ ret = NoReturn
    /\ args = None

\* a caller that starts from thickness t, n plates and separation s, and steps by
\* the distances in D
Caller(t, n, s, D) ==
    /\ geom = [ dielectric_plate_thickness |-> t,
                num_plates |-> n,
                cavity_length_tracker |-> InitialLength,
                plate_separation |-> s,
                increments |-> D ]
    /\ hist = [ length0 |-> InitialLength,
                separation0 |-> s,
                sum_increments |-> RInt(0),
                steps |-> [ r \in Roles |-> 0 ],
                completed |-> 0 ]

\* the caller of the documented example call (1.0, 0.1, 10.0, 2, 3.5)
ExampleCaller == Caller(<< 1, 10 >>, 2, << 7, 2 >>, { << 1, 1 >> })

AnyCaller ==
    \E t \in Thicknesses, n \in (-1)..MaxPlates :
        \E s \in InitialSeparations(n) : Caller(t, n, s, Increments)

\* every constructor argument; the caller of the example
Init ==
    /\ InitMotors
    /\ ExampleCaller
    /\ flmn_in = None
    /\ flmn_out = NoFlmn

\* every set of roles, listed in every order; every caller
InitGeometry ==
    /\ InitMotors
    /\ arg_list \in UNION { Perms(S) : S \in SUBSET Roles }
    /\ AnyCaller
    /\ flmn_in = None
    /\ flmn_out = NoFlmn

(***************************************************************************)
(* OrpheusMotors(auths_file, list_of_motors)                               *)
(***************************************************************************)
Construct ==
    /\ pc = "new"
    /\ \E order \in IterationOrders(arg_list) :
         /\ list_of_motors' = SetOf(arg_list)
         /\ motors' = BuildMotors(order)
         /\ motor_names' = NamesOf(BuildMotors(order))
    /\ ctor_arg_len' = Len(arg_list)
    /\ arg_list' = << >>
    /\ pc' = "idle"
    /\ op' = "__init__"
    /\ UNCHANGED << device, status, target, outcome, sent, failed, queried, ret, args,
                    geom, hist, flmn_in, flmn_out >>

(***************************************************************************)
(* Operations that only issue set() calls.  k is the call that raises.     *)
(***************************************************************************)
\* the steps each role's drive was told to move, summed over the completed calls
AddSteps(steps, calls) ==
    [ r \in Roles |->
        LET F[i \in 0..Len(calls)] ==
                IF i = 0 THEN steps[r]
                ELSE F[i - 1] + (IF calls[i].endpoint = << r, "move_steps" >>
                                 THEN calls[i].value ELSE 0)
        IN  F[Len(calls)] ]

MoveByIncrement ==
    /\ pc = "idle"
    /\ hist.completed < MaxCalls
    /\ \E increment_distance \in geom.increments :
         /\ args' = [ increment_distance |-> increment_distance,
                      dielectric_plate_thickness |-> geom.dielectric_plate_thickness,
                      cavity_length_tracker |-> geom.cavity_length_tracker,
                      num_plates |-> geom.num_plates,
                      initial_plate_separation |-> geom.plate_separation ]
         /\ IF geom.num_plates = -1
            THEN \* plate_separation divides by zero before any remote call
                 /\ outcome' = "raised"
                 /\ sent' = << >>
                 /\ failed' = << >>
                 /\ ret' = NoReturn
                 /\ geom' = geom
                 /\ hist' = hist
            ELSE LET r == move_by_increment(motors, motor_names, increment_distance,
                                            geom.dielectric_plate_thickness,
                                            geom.cavity_length_tracker,
                                            geom.num_plates, geom.plate_separation)
                 IN  \E k \in 0..Len(r.calls) :
                        /\ sent' = Acknowledged(r.calls, k)
                        /\ failed' = IF k = 0 THEN << >> ELSE << r.calls[k] >>
                        /\ outcome' = IF k = 0 THEN "returned" ELSE "raised"
                        /\ ret' = IF k = 0 THEN ReturnPair(r.ret) ELSE NoReturn
                        \* the caller threads the returned pair into its next call
                        /\ geom' = IF k = 0
                                   THEN [ geom EXCEPT !.cavity_length_tracker = r.ret[1],
                                                      !.plate_separation = r.ret[2] ]
                                   ELSE geom
                        \* the history follows the calls that completed
                        /\ hist' = IF k = 0
                                   THEN [ hist EXCEPT
                                            !.completed = @ + 1,
                                            !.sum_increments = RAdd(@, increment_distance),
                                            !.steps = AddSteps(@, r.calls) ]
                                   ELSE hist
    /\ op' = "move_by_increment"
    /\ queried' = FALSE
    /\ status' = << >>
    /\ target' = 0
    /\ UNCHANGED << pc, ctor_vars, device, flmn_vars >>

MoveToZero ==
    /\ pc = "idle"
    /\ LET calls == [ i \in DOMAIN motors |-> move_to_zero(motors[i]) ]
       IN  \E k \in 0..Len(calls) :
              /\ sent' = Acknowledged(calls, k)
              /\ failed' = IF k = 0 THEN << >> ELSE << calls[k] >>
              /\ outcome' = IF k = 0 THEN "returned" ELSE "raised"
    /\ op' = "move_to_zero"
    /\ queried' = FALSE
    /\ ret' = NoReturn
    /\ args' = None
    /\ status' = << >>
    /\ target' = 0
    /\ UNCHANGED << pc, ctor_vars, device, geom, hist, flmn_vars >>

StopAndKill ==
    /\ pc = "idle"
    /\ LET calls == [ i \in DOMAIN motors |-> stop_and_kill(motors[i]) ]
       IN  \E k \in 0..Len(calls) :
              /\ sent' = Acknowledged(calls, k)
              /\ failed' = IF k = 0 THEN << >> ELSE << calls[k] >>
              /\ outcome' = IF k = 0 THEN "returned" ELSE "raised"
    /\ op' = "stop_and_kill"
    /\ queried' = FALSE
    /\ ret' = NoReturn
    /\ args' = None
    /\ status' = << >>
    /\ target' = 0
    /\ UNCHANGED << pc, ctor_vars, device, geom, hist, flmn_vars >>


(***************************************************************************)
(* OrpheusMotors.get_motor_status, OrpheusMotors.wait_for_motors and       *)
(* Motor.wait_for_motor, one remote status query per step.                 *)
(*   "gms"        get_motor_status called by the caller                    *)
(*   "wfms_cond"  get_motor_status called by the while condition           *)
(*   "wfms_print" get_motor_status called by print() in the loop body     *)
(*   "wfms_sleep" time.sleep(1) in the loop body                           *)
(*   "wfm_cond", "wfm_print", "wfm_sleep": the same places of              *)
(*                wait_for_motor, which asks one motor                     *)
(***************************************************************************)
PollPlaces == { "gms", "wfms_cond", "wfms_print" }

GetMotorStatusCall ==
    /\ pc = "idle"
    /\ pc' = "gms"
    /\ op' = "get_motor_status"
    /\ outcome' = "running"
    /\ status' = << >>
    /\ target' = 0
    /\ sent' = << >>
    /\ failed' = << >>
    /\ queried' = FALSE
    /\ ret' = NoReturn
    /\ args' = None
    /\ UNCHANGED << ctor_vars, device, geom, hist, flmn_vars >>

WaitForMotorsCall ==
    /\ pc = "idle"
    /\ pc' = "wfms_cond"
    /\ op' = "wait_for_motors"
    /\ outcome' = "running"
    /\ status' = << >>
    /\ target' = 0
    /\ sent' = << >>
    /\ failed' = << >>
    /\ queried' = FALSE
    /\ ret' = NoReturn
    /\ args' = None
    /\ UNCHANGED << ctor_vars, device, geom, hist, flmn_vars >>

\* status.append(motor.get_status()) for the next motor of self.motors
PollQuery ==
    /\ pc \in PollPlaces
    /\ Len(status) < Len(motors)
    /\ status' = Append(status, device[get_name(motors[Len(status) + 1])])
    /\ queried' = TRUE
    /\ UNCHANGED << pc, ctor_vars, device, target, op, outcome, sent, failed, ret, args,
                    geom, hist, flmn_vars >>

\* the remote get() raises: nothing catches it
PollQueryRaises ==
    /\ pc \in PollPlaces
    /\ Len(status) < Len(motors)
    /\ failed' = << [ endpoint |-> << get_name(motors[Len(status) + 1]),
                                      "motor_request_status" >> ] >>
    /\ queried' = TRUE
    /\ outcome' = "raised"
    /\ pc' = "idle"
    \* the list built so far is lost with the frame
    /\ status' = << >>
    /\ UNCHANGED << ctor_vars, device, target, op, sent, ret, args, geom, hist,
                    flmn_vars >>

\* get_motor_status returns the list to the caller
GetMotorStatusReturn ==
    /\ pc = "gms"
    /\ Len(status) = Len(motors)
    /\ ret' = ReturnList(status)
    /\ status' = << >>
    /\ outcome' = "returned"
    /\ pc' = "idle"
    /\ UNCHANGED << ctor_vars, device, target, op, sent, failed, queried, args,
                    geom, hist, flmn_vars >>

\* the while condition holds: the loop body starts with print(get_motor_status())
WaitForMotorsLoop ==
    /\ pc = "wfms_cond"
    /\ Len(status) = Len(motors)
    /\ LoopContinues(status, ready_list(motor_names))
    /\ pc' = "wfms_print"
    /\ status' = << >>
    /\ UNCHANGED << ctor_vars, device, target, call_vars, args, geom, hist, flmn_vars >>

\* the while condition fails: print('done waiting') and return
WaitForMotorsReturn ==
    /\ pc = "wfms_cond"
    /\ Len(status) = Len(motors)
    /\ ~LoopContinues(status, ready_list(motor_names))
    /\ pc' = "idle"
    /\ outcome' = "returned"
    /\ UNCHANGED << ctor_vars, device, status, target, op, sent, failed, queried, ret,
                    args, geom, hist, flmn_vars >>

\* the list the loop body asked for is printed; time.sleep(1) is next
WaitForMotorsPrinted ==
    /\ pc = "wfms_print"
    /\ Len(status) = Len(motors)
    /\ pc' = "wfms_sleep"
    /\ UNCHANGED << ctor_vars, device, status, target, call_vars, args, geom, hist,
                    flmn_vars >>

\* time.sleep(1) returns; the while condition polls again
WaitForMotorsSlept ==
    /\ pc = "wfms_sleep"
    /\ pc' = "wfms_cond"
    /\ status' = << >>
    /\ UNCHANGED << ctor_vars, device, target, call_vars, args, geom, hist, flmn_vars >>

WaitForMotorCall ==
    /\ pc = "idle"
    /\ \E i \in DOMAIN motors : target' = i
    /\ pc' = "wfm_cond"
    /\ op' = "wait_for_motor"
    /\ outcome' = "running"
    /\ status' = << >>
    /\ sent' = << >>
    /\ failed' = << >>
    /\ queried' = FALSE
    /\ ret' = NoReturn
    /\ args' = None
    /\ UNCHANGED << ctor_vars, device, geom, hist, flmn_vars >>

\* while self.get_status() != 'R': the query, and the loop's decision on it
WaitForMotorCond ==
    /\ pc = "wfm_cond"
    /\ LET st == device[get_name(motors[target])]
       IN  /\ status' = << st >>
           /\ IF LoopContinues(<< st >>, << "R" >>)
              THEN pc' = "wfm_print" /\ outcome' = outcome
              ELSE pc' = "idle" /\ outcome' = "returned"
    /\ queried' = TRUE
    /\ UNCHANGED << ctor_vars, device, target, op, sent, failed, ret, args, geom, hist,
                    flmn_vars >>

\* print(self.get_status()): a second query, whose answer is only printed
WaitForMotorPrint ==
    /\ pc = "wfm_print"
    /\ pc' = "wfm_sleep"
    /\ UNCHANGED << ctor_vars, device, status, target, call_vars, args, geom, hist,
                    flmn_vars >>

WaitForMotorSlept ==
    /\ pc = "wfm_sleep"
    /\ pc' = "wfm_cond"
    /\ UNCHANGED << ctor_vars, device, status, target, call_vars, args, geom, hist,
                    flmn_vars >>

\* either get_status() of wait_for_motor raises
WaitForMotorQueryRaises ==
    /\ pc \in { "wfm_cond", "wfm_print" }
    /\ failed' = << [ endpoint |-> << get_name(motors[target]),
                                      "motor_request_status" >> ] >>
    /\ queried' = TRUE
    /\ outcome' = "raised"
    /\ pc' = "idle"
    /\ status' = << >>
    /\ UNCHANGED << ctor_vars, device, target, op, sent, ret, args, geom, hist,
                    flmn_vars >>

(***************************************************************************)
(* The drives: the status of a constructed motor changes at any time.      *)
(***************************************************************************)
DeviceChange ==
    /\ pc # "new"
    /\ \E r \in SetOf(motor_names), s \in Status :
         /\ s # device[r]
         /\ device' = [ device EXCEPT ![r] = s ]
    /\ UNCHANGED << pc, ctor_vars, status, target, call_vars, args, geom, hist,
                    flmn_vars >>

\* the steps of the polling loops
WaitStep ==
    \/ PollQuery
    \/ PollQueryRaises
    \/ GetMotorStatusReturn
    \/ WaitForMotorsLoop
    \/ WaitForMotorsReturn
    \/ WaitForMotorsPrinted
    \/ WaitForMotorsSlept
    \/ WaitForMotorCond
    \/ WaitForMotorPrint
    \/ WaitForMotorSlept
    \/ WaitForMotorQueryRaises

Next ==
    \/ Construct
    \/ MoveByIncrement
    \/ MoveToZero
    \/ StopAndKill
    \/ GetMotorStatusCall
    \/ WaitForMotorsCall
    \/ WaitForMotorCall
    \/ WaitStep
    \/ DeviceChange

\* every operation of an OrpheusMotors object, for the caller of the example
Spec == Init /\ [][Next]_vars

\* construction and move_by_increment calls, for every caller
NextGeometry ==
    \/ Construct
    \/ MoveByIncrement

SpecGeometry == InitGeometry /\ [][NextGeometry]_vars

\* the caller's thread keeps running: a poll, a print or a sleep that can be done is done
FairSpec == Spec /\ WF_vars(WaitStep)


(***************************************************************************)
(* Properties of move_by_increment, checked under SpecGeometry.            *)
(***************************************************************************)
CM == "curved_mirror"

BDP == "bottom_dielectric_plate"

TDP == "top_dielectric_plate"

\* the active roles in the order curved mirror, bottom plate, top plate
ActiveInFixedOrder ==
    SelectSeq(<< CM, BDP, TDP >>, LAMBDA r : r \in SetOf(motor_names))

MoveCompleted == op = "move_by_increment" /\ outcome = "returned"

\* a step count converted back to inches: steps * pitch / steps_per_rotation
StepsToDistance(k) == RDiv(RMul(RInt(k), << 1, 20 >>), RInt(20000))

\* C1: with the bottom and top plate motors active and both returned values
\* threaded from call to call, starting from the even spacing
\* cavity_length/(num_plates+1), the travel commanded to the top plate by the
\* completed calls is the plate separation now minus the original one, and the
\* travel commanded to the bottom plate is the sum of the increments minus that
\* amount, each within one step per call.
C1_EvenlySpaced ==
    ( /\ pc = "idle"
      /\ BDP \in SetOf(motor_names)
      /\ TDP \in SetOf(motor_names)
      /\ geom.num_plates # -1
      /\ hist.completed >= 1
      /\ hist.separation0 = RDiv(hist.length0, RInt(geom.num_plates + 1)) )
    => LET top == RSub(geom.plate_separation, hist.separation0)
           bottom == RSub(hist.sum_increments, top)
           slack == StepsToDistance(hist.completed)
       IN  /\ RLe(RAbs(RSub(StepsToDistance(hist.steps[TDP]), top)), slack)
           /\ RLe(RAbs(RSub(StepsToDistance(hist.steps[BDP]), bottom)), slack)

\* C3: the tracker the caller holds is the initial length plus the sum of the
\* increments of the completed calls; a completed call returns that tracker, which
\* is its argument plus its increment, and a separation whose product with
\* num_plates + 1 is the returned length.
C3_RunningSum ==
    /\ geom.cavity_length_tracker = RAdd(hist.length0, hist.sum_increments)
    /\ MoveCompleted =>
          /\ ret.pair[1] = geom.cavity_length_tracker
          /\ ret.pair[1] = RAdd(args.cavity_length_tracker, args.increment_distance)
          /\ ret.pair[2] = geom.plate_separation
          /\ RMul(ret.pair[2], RInt(args.num_plates + 1)) = ret.pair[1]

\* two completed calls with different increments, on an object with one motor
C3_Witness ==
    /\ MoveCompleted
    /\ hist.completed >= 2
    /\ hist.sum_increments = << 1, 2 >>
    /\ Len(motors) = 1

\* the step count of the claim for one role, from the arguments of the call
ClaimedSteps(role, a) ==
    LET claimed_pitch == << 1, 20 >>
        claimed_rotation == RInt(20000)
        claimed_holder == << 1, 4 >>
        claimed_lip == << 1, 20 >>
        gap == RSub(RAdd(claimed_lip, RDiv(a.dielectric_plate_thickness, RInt(2))),
                    RDiv(claimed_holder, RInt(2)))
        new_separation == RDiv(RAdd(a.cavity_length_tracker, a.increment_distance),
                               RInt(a.num_plates + 1))
        travel == IF role = CM THEN a.increment_distance
                  ELSE IF role = BDP
                  THEN RAdd(RSub(RAdd(a.initial_plate_separation, a.increment_distance),
                                 new_separation), gap)
                  ELSE RAdd(RSub(new_separation, a.initial_plate_separation), gap)
    IN  Round(RDiv(RMul(claimed_rotation, travel), claimed_pitch))

\* the plate travel itself, before the gap is added
PlateTravel(role, a) ==
    LET new_separation == RDiv(RAdd(a.cavity_length_tracker, a.increment_distance),
                               RInt(a.num_plates + 1))
    IN  IF role = BDP
        THEN RSub(RAdd(a.initial_plate_separation, a.increment_distance), new_separation)
        ELSE RSub(new_separation, a.initial_plate_separation)

ExampleArgs ==
    [ increment_distance |-> << 1, 1 >>,
      dielectric_plate_thickness |-> << 1, 10 >>,
      cavity_length_tracker |-> << 10, 1 >>,
      num_plates |-> 2,
      initial_plate_separation |-> << 7, 2 >> ]

ExampleSteps == [ r \in Roles |-> IF r = CM THEN 400000
                                  ELSE IF r = BDP THEN 323333 ELSE 56667 ]

\* the remote calls of the last operation: those that went through, then the one
\* that raised
Issued == sent \o failed

\* C4: every move_steps call of move_by_increment carries the step count of the
\* closed form; a completed call has one for every active role; a plate travel of
\* 0 gives round(steps_per_rotation * gap / pitch); the call (1.0, 0.1, 10.0, 2,
\* 3.5) returns (11, 11/3) and sends 400000, 323333 and 56667.
C4_StepCounts ==
    (op = "move_by_increment" /\ args.num_plates # -1) =>
        /\ \A i \in DOMAIN Issued :
              /\ Issued[i].endpoint[2] = "move_steps"
              /\ Issued[i].value = ClaimedSteps(Issued[i].endpoint[1], args)
              /\ ( /\ Issued[i].endpoint[1] # CM
                   /\ PlateTravel(Issued[i].endpoint[1], args) = RInt(0) )
                 => Issued[i].value =
                       Round(RDiv(RMul(RInt(20000),
                                       RSub(RAdd(<< 1, 20 >>,
                                                 RDiv(args.dielectric_plate_thickness,
                                                      RInt(2))),
                                            << 1, 8 >>)),
                                  << 1, 20 >>))
              /\ args = ExampleArgs => Issued[i].value = ExampleSteps[Issued[i].endpoint[1]]
        /\ outcome = "returned" =>
              /\ \A r \in SetOf(motor_names) :
                    \E i \in DOMAIN sent : sent[i].endpoint[1] = r
              /\ args = ExampleArgs => ret = ReturnPair(<< << 11, 1 >>, << 11, 3 >> >>)

\* the example call, completed on an object with all three motors
C4_Witness ==
    /\ MoveCompleted
    /\ args = ExampleArgs
    /\ Len(sent) = 3
    /\ \A i \in DOMAIN sent : sent[i].value = ExampleSteps[sent[i].endpoint[1]]


(***************************************************************************)
(* Properties of the OrpheusMotors operations, checked under Spec.         *)
(***************************************************************************)
\* the roles asked for at construction
RequestedRoles == list_of_motors \cap Roles

\* C2: no move command (move_steps or move_to_position) is ever issued to a motor
\* whose role was not asked for at construction.
C2_InactiveNeverMoved ==
    \A i \in DOMAIN Issued :
        Issued[i].endpoint[2] \in { "move_steps", "move_to_position" }
            => Issued[i].endpoint[1] \in RequestedRoles

\* move_to_zero has moved two motors; the third role and 'resonator_coupling',
\* which was in the list, received nothing
C2_Witness ==
    /\ op = "move_to_zero"
    /\ outcome = "returned"
    /\ Len(sent) = 2
    /\ Cardinality(RequestedRoles) = 2
    /\ "resonator_coupling" \in list_of_motors

\* what the constructor leaves, given its argument
ConstructedFor(list_arg, ms, names) ==
    /\ SetOf(names) = SetOf(list_arg) \cap Roles
    /\ Len(ms) = Cardinality(SetOf(list_arg) \cap Roles)
    /\ \A r \in SetOf(list_arg) \cap Roles :
          Cardinality({ i \in DOMAIN ms : ms[i].name = r }) = 1
    /\ DOMAIN names = DOMAIN ms
    /\ \A i \in DOMAIN ms : names[i] = ms[i].name

\* C5: construction goes through for every list; afterwards motor_names is, as a
\* set, the strings of the list that are one of the three roles, there is one
\* Motor per such role however often the list repeats it, and motor_names[i] is
\* the name of motors[i].
C5_Construction ==
    /\ [](pc = "new" => ENABLED Construct)
    /\ [][pc = "new" /\ pc' # "new"
            => /\ ConstructedFor(arg_list, motors', motor_names')
               /\ list_of_motors' = SetOf(arg_list)]_vars

\* a list that repeats a role and holds 'resonator_coupling' has been constructed
C5_Witness ==
    /\ pc = "idle"
    /\ op = "__init__"
    /\ ctor_arg_len > Cardinality(list_of_motors)
    /\ "resonator_coupling" \in list_of_motors
    /\ Len(motors) = 1
    /\ Len(motor_names) = 1

InWaitForMotors == pc \in { "wfms_cond", "wfms_print", "wfms_sleep" }

InWaitForMotor == pc \in { "wfm_cond", "wfm_print", "wfm_sleep" }

InWait == InWaitForMotors \/ InWaitForMotor

\* what the returns of the two waits rest on, and what a wait never does
WaitReturns ==
    /\ (op = "wait_for_motors" /\ outcome = "returned") =>
          /\ Len(status) = Len(motors)
          /\ \A i \in DOMAIN status : status[i] = "R"
    /\ (op = "wait_for_motor" /\ outcome = "returned") => status = << "R" >>
    /\ op \in { "wait_for_motors", "wait_for_motor" } => sent = << >>
    /\ (op = "wait_for_motors" /\ motors = << >>) => pc \in { "wfms_cond", "idle" }

\* C6 as stated: the returns rest on an all-'R' poll round, the wait issues no
\* command, an empty active set returns after the first poll, and every poll round
\* of a wait but the first comes right after a sleep.
C6_SleepBeforeEveryPoll ==
    /\ []WaitReturns
    /\ [][(pc' \in { "wfms_cond", "wfms_print", "wfm_cond", "wfm_print" } /\ pc' # pc)
            => pc \in { "idle", "wfms_sleep", "wfm_sleep" }]_vars

\* C6, amended: as above, but the poll rounds come in pairs.  The round of the
\* loop condition starts at the call or right after a sleep; when it does not end
\* the wait, a second round (the one that is printed) follows it with no sleep in
\* between, and the sleep follows that one.
C6_PollRounds ==
    /\ []WaitReturns
    /\ [][/\ (pc' = "wfms_cond" /\ pc' # pc) => pc \in { "idle", "wfms_sleep" }
          /\ (pc' = "wfm_cond" /\ pc' # pc) => pc \in { "idle", "wfm_sleep" }
          /\ (pc' = "wfms_print" /\ pc' # pc) => pc = "wfms_cond"
          /\ (pc' = "wfm_print" /\ pc' # pc) => pc = "wfm_cond"
          /\ (pc' = "wfms_sleep" /\ pc' # pc) => pc = "wfms_print"
          /\ (pc' = "wfm_sleep" /\ pc' # pc) => pc = "wfm_print"]_vars

\* wait_for_motors has returned on three motors, one of which has left 'R' since
C6_Witness ==
    /\ op = "wait_for_motors"
    /\ outcome = "returned"
    /\ Len(status) = 3
    /\ \E r \in SetOf(motor_names) : device[r] # "R"

\* the position of a role among the active roles in the fixed order
PlaceOf(role) == Index(ActiveInFixedOrder, role)

\* C8: when a move_steps call of move_by_increment raises, the call returns
\* nothing, the caller's geometry is not advanced, the motors before the failing
\* one in the order have had their move_steps call, the motors after it have had
\* none, and no stop command went out.
C8_FailurePropagates ==
    (op = "move_by_increment" /\ outcome = "raised" /\ failed # << >>) =>
        /\ pc = "idle"
        /\ ret = NoReturn
        /\ geom.cavity_length_tracker = args.cavity_length_tracker
        /\ geom.plate_separation = args.initial_plate_separation
        /\ failed[1].endpoint[2] = "move_steps"
        /\ failed[1].endpoint[1] \in SetOf(motor_names)
        /\ [ i \in DOMAIN sent |-> sent[i].endpoint ] =
              [ i \in 1..(PlaceOf(failed[1].endpoint[1]) - 1) |->
                    << ActiveInFixedOrder[i], "move_steps" >> ]

\* the call to the bottom plate raised: the curved mirror has moved, the top plate
\* has not
C8_Witness ==
    /\ op = "move_by_increment"
    /\ outcome = "raised"
    /\ Len(motors) = 3
    /\ failed # << >>
    /\ failed[1].endpoint[1] = BDP
    /\ Len(sent) = 1

\* C10: a completed move_by_increment has issued exactly one move_steps call per
\* active motor and nothing else, in the order curved mirror, bottom plate, top
\* plate whatever the order of construction, and has asked no drive for its status.
C10_FixedOrderNoWait ==
    MoveCompleted =>
        /\ pc = "idle"
        /\ failed = << >>
        /\ ~queried
        /\ [ i \in DOMAIN sent |-> sent[i].endpoint ] =
              [ i \in DOMAIN ActiveInFixedOrder |->
                    << ActiveInFixedOrder[i], "move_steps" >> ]

\* three motors constructed top plate first; the call has completed although the
\* curved mirror's drive does not report 'R'
C10_Witness ==
    /\ MoveCompleted
    /\ Len(motor_names) = 3
    /\ motor_names[1] = TDP
    /\ device[CM] # "R"

(***************************************************************************)
(* Termination of the waits, checked under FairSpec.                       *)
(***************************************************************************)
AllActiveReady == \A r \in SetOf(motor_names) : device[r] = "R"

\* C7: a wait ends only by returning on an all-'R' answer to its loop condition
\* or by a remote call raising, never otherwise; and if from some point on every
\* active drive reports 'R', every wait ends.
C7_NoEscapeButTerminates ==
    /\ [][(InWait /\ ~InWait')
            => \/ outcome' = "raised"
               \/ /\ outcome' = "returned"
                  /\ pc \in { "wfms_cond", "wfm_cond" }
                  /\ \A i \in DOMAIN status' : status'[i] = "R"
                  /\ Len(status') = IF pc = "wfms_cond" THEN Len(motors) ELSE 1]_vars
    /\ (<>[]AllActiveReady) => (InWait ~> ~InWait)

\* wait_for_motors sleeps in its loop body while every drive already reports 'R'
C7_Witness ==
    /\ pc = "wfms_sleep"
    /\ Len(motors) >= 2
    /\ AllActiveReady


(***************************************************************************)
(* DataLogger.flmn.  The frequency is                                      *)
(*     v * (n_term_over_v + lm_term_pi_over_v * acos(arccos_of) / pi)      *)
(* with v = c/sqrt(eps_r); the model keeps the three rational parts and    *)
(* the exception each line can raise, in the order the lines run.          *)
(***************************************************************************)
Raises(kind, where) == [ kind |-> kind, where |-> where ]

\* a faulty variant of flmn: acos refuses arguments below 0
flmn_acos_from_zero(l, m, n, length, eps_r, r0) ==
    IF eps_r < 0 THEN Raises("ValueError", "sqrt")
    ELSE IF eps_r = 0 THEN Raises("ZeroDivisionError", "v")
    ELSE
    LET sum == 1 + l + m
        l_in_m == RDiv(length, RInt(100))
        r0_m == RDiv(r0, RInt(100))
    IN  IF r0_m = RInt(0) THEN Raises("ZeroDivisionError", "arccos_term")
        ELSE
        LET x == RSub(RInt(1), RDiv(RMul(RInt(2), l_in_m), r0_m))
        IN  IF RLt(x, RInt(0)) \/ RLt(RInt(1), x) THEN Raises("ValueError", "acos")
            ELSE IF l_in_m = RInt(0) THEN Raises("ZeroDivisionError", "n_term")
            ELSE [ kind |-> "value",
                   eps_r |-> eps_r,
                   arccos_of |-> x,
                   n_term_over_v |-> RDiv(RDiv(RInt(n + 1), RInt(2)), l_in_m),
                   lm_term_pi_over_v |-> RDiv(RInt(sum), RMul(RInt(4), l_in_m)) ]

flmn(l, m, n, length, eps_r, r0) ==
    \* v = c/math.sqrt(eps_r)
    IF eps_r < 0 THEN Raises("ValueError", "sqrt")
    ELSE IF eps_r = 0 THEN Raises("ZeroDivisionError", "v")
    ELSE
    LET sum == 1 + l + m
        l_in_m == RDiv(length, RInt(100))
        r0_m == RDiv(r0, RInt(100))
    IN  \* arccos_term = math.acos(1-2*l_in_m/r0_m)
        IF r0_m = RInt(0) THEN Raises("ZeroDivisionError", "arccos_term")
        ELSE
        LET x == RSub(RInt(1), RDiv(RMul(RInt(2), l_in_m), r0_m))
        IN  IF RLt(x, RInt(-1)) \/ RLt(RInt(1), x) THEN Raises("ValueError", "acos")
            \* n_term = ((n+1)*v/2)/l_in_m
            ELSE IF l_in_m = RInt(0) THEN Raises("ZeroDivisionError", "n_term")
            ELSE [ kind |-> "value",
                   eps_r |-> eps_r,
                   arccos_of |-> x,
                   n_term_over_v |-> RDiv(RDiv(RInt(n + 1), RInt(2)), l_in_m),
                   lm_term_pi_over_v |-> RDiv(RInt(sum), RMul(RInt(4), l_in_m)) ]

\* cavity lengths in cm: negative, zero, half r0, r0, beyond r0
FlmnLengths == { << -1, 1 >>, << 0, 1 >>, << 33, 2 >>, << 33, 1 >>, << 34, 1 >> }

\* mirror radii in cm: the default and zero
FlmnRadii == { << 33, 1 >>, << 0, 1 >> }

FlmnPermittivities == { -1, 0, 1, 4 }

InitFlmn ==
    /\ InitMotors
    /\ arg_list = << >>
    /\ ExampleCaller
    /\ flmn_in \in [ l : 0..MaxMode, m : 0..MaxMode, n : 0..MaxMode,
                     length : FlmnLengths, eps_r : FlmnPermittivities, r0 : FlmnRadii ]
    /\ flmn_out = NoFlmn

Flmn ==
    /\ flmn_out = NoFlmn
    /\ flmn_out' = flmn(flmn_in.l, flmn_in.m, flmn_in.n, flmn_in.length,
                        flmn_in.eps_r, flmn_in.r0)
    /\ UNCHANGED << pc, ctor_vars, device, status, target, call_vars, args, geom, hist,
                    flmn_in >>

NextFlmn == Flmn

SpecFlmn == InitFlmn /\ [][NextFlmn]_vars

\* 1 - 2*(length/100)/(r0/100), for r0 # 0
AcosArgument(in) ==
    RSub(RInt(1), RDiv(RMul(RInt(2), RDiv(in.length, RInt(100))), RDiv(in.r0, RInt(100))))

FlmnCalled == flmn_out # NoFlmn

FlmnExample ==
    [ l |-> 0, m |-> 0, n |-> 0, length |-> << 33, 1 >>, eps_r |-> 1, r0 |-> << 33, 1 >> ]

Between(lo, x, hi) == RLe(RInt(lo), x) /\ RLe(x, RInt(hi))

\* C9 as stated: for eps_r > 0 and r0 # 0, flmn fails with a numeric-domain error
\* exactly when 1 - 2*(length/100)/(r0/100) is outside 0 <= x <= 1 and returns a
\* frequency for every input inside that range, the example l = m = n = 0,
\* length = 33, r0 = 33 included.
C9_DomainZeroToOne ==
    (FlmnCalled /\ flmn_in.eps_r > 0 /\ flmn_in.r0 # RInt(0)) =>
        /\ flmn_out.kind = "ValueError" <=> ~Between(0, AcosArgument(flmn_in), 1)
        /\ Between(0, AcosArgument(flmn_in), 1) => flmn_out.kind = "value"
        /\ flmn_in = FlmnExample => flmn_out.kind = "value"

\* C9, amended: for eps_r > 0 and r0 # 0, flmn fails with a numeric-domain error
\* exactly when 1 - 2*(length/100)/(r0/100) is outside -1 <= x <= 1; inside that
\* range it returns a frequency for every length # 0 (the example, where x = -1,
\* included) and divides by zero at length = 0; it changes nothing else.
C9_DomainOfAcos ==
    /\ [](FlmnCalled /\ flmn_in.eps_r > 0 /\ flmn_in.r0 # RInt(0) =>
            LET x == AcosArgument(flmn_in)
            IN  /\ flmn_out.kind = "ValueError" <=> ~Between(-1, x, 1)
                /\ (Between(-1, x, 1) /\ flmn_in.length # RInt(0)) =>
                      /\ flmn_out.kind = "value"
                      /\ flmn_out.arccos_of = x
                /\ (Between(-1, x, 1) /\ flmn_in.length = RInt(0)) =>
                      flmn_out.kind = "ZeroDivisionError"
                /\ flmn_in = FlmnExample =>
                      /\ flmn_out.kind = "value"
                      /\ flmn_out.arccos_of = RInt(-1))
    /\ [][flmn_out' # flmn_out =>
            UNCHANGED << pc, ctor_vars, device, status, target, call_vars, args, geom,
                         hist, flmn_in >>]_vars

\* the example has been evaluated: acos(-1), and a frequency comes back
C9_Witness ==
    /\ flmn_in = FlmnExample
    /\ flmn_out.kind = "value"
    /\ flmn_out.arccos_of = RInt(-1)

=============================================================================
